---- MODULE Spec2Model ----
(***************************************************************************)
(* Model of the Fivetran news connector (src/connector.py): the generator  *)
(* update() with its helper get_last_published_at() and the per-topic       *)
(* generator sync_items(), together with the host that consumes the        *)
(* operation stream and persists the state of every checkpoint.            *)
(*                                                                         *)
(* Time is counted in whole days.  A timestamp string is a sequence of     *)
(* characters; strftime() produces a fixed-width, zero-padded string and   *)
(* Python's min() compares such strings character by character.            *)
(***************************************************************************)
EXTENDS Integers, Sequences, FiniteSets, TLC

VARIABLES
    conf,               \* configuration passed to update()
    now,                \* the clock, read at line 98
    destination,        \* the published_at days stored in the destination table
    persisted,          \* host: state of the last checkpoint it consumed
    state,              \* update(): the state argument
    last_published_at,  \* update(): result of get_last_published_at
    query_start,        \* update(): local query_start
    query_end,          \* update(): local query_end
    params,             \* update(): the params dict (shared with sync_items)
    headers,            \* update(): the name headers
    sync_headers,       \* sync_items(): the name headers
    sent,               \* the GET requests issued so far in this run
    tl_calls,           \* per article, the POST requests made for it
    topics,             \* update(): conf["TOPIC"].split(",")
    ti,                 \* update(): position of the for loop in topics
    response,           \* sync_items(): the response of requests.get
    articles,           \* sync_items(): articles not yet iterated
    fetched,            \* per topic, the number of articles its fetch returned
    ops,                \* the operations yielded so far in this run
    errors,             \* the exceptions that left update() in this run
    prev,               \* host: summary of the previous run
    pc                  \* position of the generator

vars == <<conf, now, destination, persisted, state, last_published_at, query_start,
          query_end, params, headers, sync_headers, sent, tl_calls, topics,
          ti, response, articles, fetched, ops, errors, prev, pc>>

----------------------------------------------------------------------------
(* Bounds *)

FirstDay == 8
MaxNow == 11
MaxTopics == 2
MaxPageSize == 2

(* Program constants *)

INIT_DELTA == 2

----------------------------------------------------------------------------
(* Strings *)

None == <<"None">>

Digits == <<"0", "1", "2", "3", "4", "5", "6", "7", "8", "9">>

Ord(c) == CHOOSE i \in 1..Len(Digits) : Digits[i] = c

\* Python's str < str: lexicographic on the characters
RECURSIVE StrLess(_, _)
StrLess(a, b) ==
    IF b = << >> THEN FALSE
    ELSE IF a = << >> THEN TRUE
    ELSE IF Head(a) = Head(b) THEN StrLess(Tail(a), Tail(b))
    ELSE Ord(Head(a)) < Ord(Head(b))

\* datetime.strftime(TS_FORMAT): every field zero-padded to a fixed width
strftime(t) == <<Digits[(t \div 10) + 1], Digits[(t % 10) + 1]>>

\* the day a well-formed timestamp string denotes
Day(s) == (Ord(s[1]) - 1) * 10 + (Ord(s[2]) - 1)

\* filter(None, xs): keeps the truthy elements (drops None and "")
filter(xs) == SelectSeq(xs, LAMBDA x : x # None /\ x # << >>)

\* variant of min: the largest element
RECURSIVE min_as_max(_)
min_as_max(xs) ==
    IF Len(xs) = 1 THEN xs[1]
    ELSE LET m == min_as_max(Tail(xs))
         IN  IF StrLess(Head(xs), m) THEN m ELSE Head(xs)

\* min(xs) on strings: the first smallest element
RECURSIVE min(_)
min(xs) ==
    IF Len(xs) = 1 THEN xs[1]
    ELSE LET m == min(Tail(xs))
         IN  IF StrLess(m, Head(xs)) THEN m ELSE Head(xs)

\* variant of split: the parts in reverse order
RECURSIVE split_reversed(_, _)
split_reversed(s, sep) ==
    IF \A i \in 1..Len(s) : s[i] # sep THEN <<s>>
    ELSE LET i == CHOOSE j \in 1..Len(s) :
                      s[j] = sep /\ \A k \in 1..(j - 1) : s[k] # sep
         IN  split_reversed(SubSeq(s, i + 1, Len(s)), sep)
                 \o <<SubSeq(s, 1, i - 1)>>

\* str.split(sep) for a one-character separator
RECURSIVE split(_, _)
split(s, sep) ==
    IF \A i \in 1..Len(s) : s[i] # sep THEN <<s>>
    ELSE LET i == CHOOSE j \in 1..Len(s) :
                      s[j] = sep /\ \A k \in 1..(j - 1) : s[k] # sep
         IN  <<SubSeq(s, 1, i - 1)>> \o split(SubSeq(s, i + 1, Len(s)), sep)

\* str.strip(): removes leading and trailing whitespace
RECURSIVE strip(_)
strip(s) ==
    IF s = << >> THEN s
    ELSE IF Head(s) = " " THEN strip(Tail(s))
    ELSE IF s[Len(s)] = " " THEN strip(SubSeq(s, 1, Len(s) - 1))
    ELSE s

----------------------------------------------------------------------------
(* Inputs *)

EmptyState == [k \in {} |-> None]

States == {EmptyState} \cup {[to_ts |-> strftime(t)] : t \in FirstDay..MaxNow}

TopicNames == <<"a", "b", "c", "d">>

RECURSIVE TopicString(_)
TopicString(n) ==
    IF n = 1 THEN <<TopicNames[1]>>
    ELSE TopicString(n - 1) \o <<",", TopicNames[n]>>

Confs == [TOPIC : {TopicString(n) : n \in 1..MaxTopics},
          PAGE_SIZE : 1..MaxPageSize,
          NEWS_API_KEY : {"news-key"},
          TABULA_KEY : {"tl-key"}]

\* what the destination table may hold: nothing, or rows up to some day
Destinations == {{}} \cup {{t} : t \in FirstDay..MaxNow}

\* outcomes of the connection and of the query in get_last_published_at:
\* the connection fails, the query fails, the query gives the maximum as a
\* datetime, or it gives a value that is not a datetime
LookupOutcomes == {"connect_error", "query_error", "datetime", "bad_value"}

Article(src, pub, content) ==
    [source |-> [name |-> src], publishedAt |-> pub, author |-> "author",
     title |-> "title", description |-> "description", content |-> content,
     url |-> "url"]

\* the articles the source API may return: with text, blank and null content;
\* the first two are two versions of one (source, publishedAt)
Pool == {Article("s1", strftime(FirstDay), <<"x">>),
         Article("s1", strftime(FirstDay), <<" ">>),
         Article("s2", strftime(FirstDay + 1), None)}

\* a page of at most n distinct articles, in the API's publishedAt order
ArticleLists(n) ==
    {s \in UNION {[1..k -> Pool] : k \in 0..n} :
        \A i, j \in 1..Len(s) :
            i < j => /\ s[i] # s[j]
                     /\ ~StrLess(s[j].publishedAt, s[i].publishedAt)}

\* what requests.get() and response.json() can produce for one topic
FetchOutcomes(n) ==
    [kind : {"network_error"}, status : {0}, articles : {<< >>}]
    \cup [kind : {"malformed_json", "no_articles"}, status : {200, 500},
          articles : {<< >>}]
    \cup [kind : {"articles"}, status : {200, 500}, articles : ArticleLists(n)]

FullDocument == [blue |-> 1, red |-> 2,
                 p_values |-> <<10, 11, 12, 13, 14, 15, 16, 17>>]

\* document-level responses of the enrichment service
Documents == {FullDocument,
              [blue |-> 1, p_values |-> FullDocument.p_values],
              [blue |-> 1, red |-> 2],
              [blue |-> 1, red |-> 2, p_values |-> <<10, 11, 12>>]}

\* what requests.post() and the reading of its response can produce
TLOutcomes ==
    [kind : {"network_error", "http_error", "no_document"},
     document : {FullDocument}]
    \cup [kind : {"json"}, document : Documents]

----------------------------------------------------------------------------
(* Operations yielded to the host *)

NoData == [k \in {} |-> None]

upsert(table, data) ==
    [op |-> "upsert", table |-> table, data |-> data, state |-> EmptyState]

checkpoint(s) ==
    [op |-> "checkpoint", table |-> "", data |-> NoData, state |-> s]

----------------------------------------------------------------------------
(* get_last_published_at *)

SetMax(S) == CHOOSE m \in S : \A x \in S : x <= m

\* max(published_at) of an empty table is NULL
get_last_published_at(outcome, table) ==
    IF outcome = "connect_error"
    THEN [raised |-> TRUE, error |-> "DatabaseError", value |-> None]
    ELSE LET result == IF outcome = "query_error" \/ table = {}
                       THEN "None" ELSE outcome
         IN  IF result = "None"
             THEN [raised |-> FALSE, error |-> "", value |-> None]
             ELSE IF result = "bad_value"
             THEN [raised |-> TRUE, error |-> "AttributeError", value |-> None]
             ELSE [raised |-> FALSE, error |-> "",
                   value |-> strftime(SetMax(table))]

----------------------------------------------------------------------------
(* State *)

NoResponse == [kind |-> "none", status |-> 0]

NoParams == [from |-> None, to |-> None, page |-> "1", language |-> "en",
             sortBy |-> "publishedAt", pageSize |-> 0, q |-> None]

NoHeaders == [k \in {} |-> None]

NoPrev == [outcome |-> "none", query_start |-> None, state |-> EmptyState]

Fresh(c, t, d, s) ==
    /\ conf = c
    /\ now = t
    /\ destination = d
    /\ persisted = s
    /\ state = s
    /\ last_published_at = None
    /\ query_start = None
    /\ query_end = None
    /\ params = NoParams
    /\ headers = NoHeaders
    /\ sync_headers = NoHeaders
    /\ sent = << >>
    /\ tl_calls = << >>
    /\ topics = << >>
    /\ ti = 1
    /\ response = NoResponse
    /\ articles = << >>
    /\ fetched = << >>
    /\ ops = << >>
    /\ errors = << >>
    /\ prev = NoPrev
    /\ pc = "idle"

\* a run under any configuration over an empty destination, started with no
\* state, with an old watermark or with the watermark of a run of the same
\* clock value
Init ==
    \E c \in Confs,
       s \in {EmptyState, [to_ts |-> strftime(FirstDay)],
               [to_ts |-> strftime(MaxNow)]} :
        Fresh(c, MaxNow, {}, s)

\* raise: the exception leaves update() and the generator is finished
raise(type, message) ==
    /\ errors' = Append(errors, [type |-> type, message |-> message])
    /\ pc' = "failed"

----------------------------------------------------------------------------
(* update(): window resolution, lines 97-130 *)

\* variant of get: the key is never found
get_absent(d, k) == None

\* state.get("to_ts")
get(d, k) == IF k \in DOMAIN d THEN d[k] ELSE None

start_options(from_ts, lpa, safety) == <<from_ts, lpa, safety>>

\* lines 124-127
bearer_headers(c) ==
    [Authorization |-> <<"Bearer ", c.NEWS_API_KEY>>,
     Accept |-> "application/json"]

ResolveWindow ==
    /\ pc = "idle"
    /\ \E outcome \in LookupOutcomes :
        LET from_ts == get(state, "to_ts")
            r == get_last_published_at(outcome, destination)
            safety == strftime(now - INIT_DELTA)
            qs == min(filter(start_options(from_ts, r.value, safety)))
            qe == strftime(now)
        IN  IF r.raised
            THEN /\ raise(r.error, r.error)
                 /\ UNCHANGED <<last_published_at, query_start, query_end,
                                params, headers, topics>>
            ELSE /\ last_published_at' = r.value
                 /\ query_start' = qs
                 /\ query_end' = qe
                 /\ params' = [from |-> qs, to |-> qe, page |-> "1",
                               language |-> "en", sortBy |-> "publishedAt",
                               pageSize |-> conf.PAGE_SIZE, q |-> None]
                 /\ headers' = bearer_headers(conf)
                 /\ topics' = split(conf.TOPIC, ",")
                 /\ pc' = "loop"
                 /\ UNCHANGED errors
    /\ UNCHANGED <<conf, now, destination, persisted, state, sync_headers,
                   sent, tl_calls, ti, response, articles, fetched, ops, prev>>

----------------------------------------------------------------------------
(* sync_items(): the fetch, lines 150-155, called from update() line 133 *)

\* the exception, if any, that lines 150-156 raise on a fetch outcome
fetch_error(f) ==
    CASE f.kind = "network_error" -> "ConnectionError"
      [] f.kind = "malformed_json" -> "JSONDecodeError"
      [] f.kind = "no_articles" -> "TypeError"
      [] OTHER -> ""

BASE_API_URL == "https://newsapi.org/v2/everything"

\* variant of set_q: the window is moved as well
set_q_and_from(p, topic) == [p EXCEPT !.q = topic, !.from = p.to]

\* line 132
set_q(p, topic) == [p EXCEPT !.q = topic]

FetchTopic ==
    /\ pc = "loop"
    /\ ti <= Len(topics)
    /\ params' = set_q(params, topics[ti])
    /\ sync_headers' = headers
    /\ sent' = Append(sent, [url |-> BASE_API_URL, headers |-> sync_headers',
                             params |-> params'])
    /\ \E f \in FetchOutcomes(conf.PAGE_SIZE) :
        /\ response' = [kind |-> f.kind, status |-> f.status]
        /\ IF fetch_error(f) # ""
           THEN /\ raise("RuntimeError", fetch_error(f))
                /\ UNCHANGED <<articles, fetched>>
           ELSE /\ articles' = f.articles
                /\ fetched' = Append(fetched, Len(f.articles))
                /\ pc' = "articles"
                /\ UNCHANGED errors
    /\ UNCHANGED <<conf, now, destination, persisted, state,
                   last_published_at, query_start, query_end, headers,
                   tl_calls, topics, ti, ops, prev>>

----------------------------------------------------------------------------
(* sync_items(): one iteration of the article loop, lines 156-205 *)

build_data(article, topic) ==
    [topic |-> topic,
     source |-> article.source.name,
     published_at |-> article.publishedAt,
     author |-> article.author,
     title |-> article.title,
     description |-> article.description,
     content |-> article.content,
     url |-> article.url]

\* the assignments of lines 183-192, in order
Targets == <<"blue", "red", "p0", "p1", "p2", "p3", "p4", "p5", "p6", "p7">>

EnrichmentFields == {Targets[i] : i \in 1..Len(Targets)}

\* tl_data["blue"], tl_data["red"], tl_data["p_values"][i - 3] can be read
readable(doc, i) ==
    IF i <= 2 THEN Targets[i] \in DOMAIN doc
    ELSE "p_values" \in DOMAIN doc /\ i - 2 <= Len(doc.p_values)

value(doc, i) == IF i <= 2 THEN doc[Targets[i]] ELSE doc.p_values[i - 2]

\* lines 183-192: each assignment takes effect before the next is evaluated;
\* the first lookup that raises leaves the earlier assignments in data
RECURSIVE assign(_, _, _)
assign(data, doc, i) ==
    IF i > Len(Targets) THEN data
    ELSE IF ~readable(doc, i) THEN data
    ELSE assign(data @@ (Targets[i] :> value(doc, i)), doc, i + 1)

\* variant of tl_called: the content is tested without being trimmed
tl_called_untrimmed(data) == data.content # None /\ data.content # << >>

\* the enrichment service is called (line 180 is reached)
tl_called(data) == data.content # None /\ strip(data.content) # << >>

\* lines 171-203: the try block and its handler, which only logs
enrich(data, tl) ==
    IF ~tl_called(data) THEN data
    ELSE IF tl.kind # "json" THEN data
    ELSE assign(data, tl.document, 1)

\* the POST requests lines 171-180 make for one article
tl_posts(data) == IF tl_called(data) THEN 1 ELSE 0

\* line 179
tl_headers(c) == [Auth |-> c.TABULA_KEY, accept |-> "application/json"]

\* variant of outer_headers: the rebinding reaches the caller's name
outer_headers_rebound(outer, local) == local

\* the headers of update() once sync_items has bound its own name headers
\* to local (line 179)
outer_headers(outer, local) == outer

EmitArticle ==
    /\ pc = "articles"
    /\ articles # << >>
    /\ LET data == build_data(Head(articles), topics[ti])
       IN  /\ \E tl \in TLOutcomes :
                ops' = Append(ops, upsert("article", enrich(data, tl)))
           /\ tl_calls' = Append(tl_calls, tl_posts(data))
           /\ IF tl_called(data)
              THEN /\ sync_headers' = tl_headers(conf)
                   /\ headers' = outer_headers(headers, tl_headers(conf))
              ELSE UNCHANGED <<sync_headers, headers>>
    /\ articles' = Tail(articles)
    /\ UNCHANGED <<conf, now, destination, persisted, state,
                   last_published_at, query_start, query_end, params, sent,
                   topics, ti, response, fetched, errors, prev, pc>>

----------------------------------------------------------------------------
(* sync_items(): line 207, and the return to the loop of update() *)

\* variant of topic_checkpoint_state: the advanced watermark
topic_checkpoint_new_state(s, p) == [to_ts |-> p.to]

\* the state the intermediate checkpoint carries
topic_checkpoint_state(s, p) == s

TopicCheckpoint ==
    /\ pc = "articles"
    /\ articles = << >>
    /\ ops' = Append(ops, checkpoint(topic_checkpoint_state(state, params)))
    /\ persisted' = topic_checkpoint_state(state, params)
    /\ response' = NoResponse
    /\ sync_headers' = NoHeaders
    /\ ti' = ti + 1
    /\ pc' = "loop"
    /\ UNCHANGED <<conf, now, destination, state, last_published_at,
                   query_start, query_end, params, headers, sent, tl_calls,
                   topics, articles, fetched, errors, prev>>

----------------------------------------------------------------------------
(* update(): lines 134-146 *)

\* variant of new_state: the start of the window
new_state_from(p) == [to_ts |-> p.from]

new_state(p) == [to_ts |-> p.to]

FinalCheckpoint ==
    /\ pc = "loop"
    /\ ti > Len(topics)
    /\ ops' = Append(ops, checkpoint(new_state(params)))
    /\ persisted' = new_state(params)
    /\ pc' = "done"
    /\ UNCHANGED <<conf, now, destination, state, last_published_at,
                   query_start, query_end, params, headers, sync_headers,
                   sent, tl_calls, topics, ti, response, articles, fetched,
                   errors, prev>>

----------------------------------------------------------------------------
(* The host: the next scheduled run, started with the persisted state *)

Invoke ==
    /\ pc \in {"done", "failed"}
    /\ \E d \in 0..1 :
        /\ now + d <= MaxNow
        /\ now' = now + d
    /\ state' = persisted
    /\ prev' = [outcome |-> pc, query_start |-> query_start, state |-> state]
    /\ last_published_at' = None
    /\ query_start' = None
    /\ query_end' = None
    /\ params' = NoParams
    /\ headers' = NoHeaders
    /\ sync_headers' = NoHeaders
    /\ sent' = << >>
    /\ tl_calls' = << >>
    /\ topics' = << >>
    /\ ti' = 1
    /\ response' = NoResponse
    /\ articles' = << >>
    /\ fetched' = << >>
    /\ ops' = << >>
    /\ errors' = << >>
    /\ pc' = "idle"
    /\ UNCHANGED <<conf, destination, persisted>>

----------------------------------------------------------------------------
(* Specifications *)

\* one run of update()
Next ==
    \/ ResolveWindow
    \/ FetchTopic
    \/ EmitArticle
    \/ TopicCheckpoint
    \/ FinalCheckpoint

Spec == Init /\ [][Next]_vars

\* one run; the host keeps asking the generator for its next operation
FairInit ==
    \E c \in Confs, s \in {EmptyState, [to_ts |-> strftime(MaxNow)]} :
        Fresh(c, MaxNow, {}, s)

FairSpec == FairInit /\ [][Next]_vars /\ WF_vars(Next)

\* the first run of a connection: no saved state
StreamInit == \E c \in Confs : Fresh(c, MaxNow, {}, EmptyState)

StreamSpec == StreamInit /\ [][Next]_vars

\* one run over a single topic, under every clock value and prior state
WindowInit ==
    \E c \in {k \in Confs : k.PAGE_SIZE = 1 /\ k.TOPIC = TopicString(1)},
       t \in (FirstDay + INIT_DELTA)..MaxNow, d \in Destinations,
       s \in States :
        Fresh(c, t, d, s)

WindowSpec == WindowInit /\ [][Next]_vars

\* a sequence of runs, each started with the state the host persisted
HostInit ==
    \E c \in {k \in Confs : k.PAGE_SIZE = 1},
       d \in {{}, {FirstDay}, {MaxNow}}, s \in States :
        Fresh(c, FirstDay + INIT_DELTA, d, s)

HostNext ==
    \/ ResolveWindow
    \/ FetchTopic
    \/ EmitArticle
    \/ TopicCheckpoint
    \/ FinalCheckpoint
    \/ Invoke

HostSpec == HostInit /\ [][HostNext]_vars

----------------------------------------------------------------------------
(* Properties *)

Upserts == {i \in 1..Len(ops) : ops[i].op = "upsert"}

Checkpoints == {i \in 1..Len(ops) : ops[i].op = "checkpoint"}

RECURSIVE Sum(_)
Sum(xs) == IF xs = << >> THEN 0 ELSE Head(xs) + Sum(Tail(xs))

SetMin(S) == CHOOSE m \in S : \A x \in S : m <= x

\* the run was aborted by the fetch of topic ti raising
FetchFailed ==
    /\ pc = "failed"
    /\ response.kind \in {"network_error", "malformed_json", "no_articles"}

\* the request of the current topic ended in a network error, a non-success
\* status or malformed JSON
RequestFailed ==
    \/ response.kind \in {"network_error", "malformed_json"}
    \/ response.kind # "none" /\ response.kind # "network_error"
       /\ response.status # 200

\* the days of the non-null candidates for query_start
Candidates ==
    {Day(x) : x \in {y \in {get(state, "to_ts"), last_published_at} :
                        y # None /\ y # << >>}}
    \cup {now - INIT_DELTA}

WindowResolved == pc \in {"loop", "articles", "done"} \/ FetchFailed

\* C1 (as stated): in a run whose fetch fails for some topic, the operation
\* stream holds no checkpoint at all.
C1_NoCheckpointAtAll == FetchFailed => Checkpoints = {}

\* C1 (amended): in a run whose fetch fails for topic number ti, the stream
\* holds exactly ti - 1 checkpoints, the intermediate ones of the topics
\* completed before, each carrying the run's input state; none when the
\* first topic fails.
C1_OnlyIntermediateCheckpoints ==
    FetchFailed =>
        /\ Cardinality(Checkpoints) = ti - 1
        /\ \A i \in Checkpoints : ops[i].state = state

C1_Witness ==
    /\ FetchFailed
    /\ ti = 2
    /\ Cardinality(Checkpoints) = 1
    /\ Upserts # {}

\* C2 (as stated): the run after a fatally failed run computes the same
\* query_start as the failed run.
C2_SameQueryStart ==
    (prev.outcome = "failed" /\ prev.query_start # None /\ WindowResolved)
        => query_start = prev.query_start

\* C2 (amended): the run after a fatally failed run is passed the same state
\* as the failed run; its query_start is the minimum of that state's to_ts,
\* the destination maximum it reads and its own now minus 2 days, and it
\* equals the failed run's query_start whenever that was the state's to_ts
\* and the newly read destination maximum is absent or not earlier.
C2_SameStateRecomputedStart ==
    (prev.outcome = "failed" /\ prev.query_start # None /\ WindowResolved)
        => /\ state = prev.state
           /\ query_start = strftime(SetMin(Candidates))
           /\ (/\ prev.query_start = get(prev.state, "to_ts")
               /\ \/ last_published_at = None
                  \/ ~StrLess(last_published_at, prev.query_start))
              => query_start = prev.query_start

C2_Witness ==
    /\ prev.outcome = "failed"
    /\ prev.query_start # None
    /\ WindowResolved
    /\ prev.query_start = get(prev.state, "to_ts")
    /\ query_start = prev.query_start
    /\ query_end # strftime(FirstDay + INIT_DELTA)

\* C3: every upserted record has all of blue, red, p0..p7 or none of them.
C3_EnrichmentAtomicity ==
    \A i \in Upserts :
        \/ EnrichmentFields \subseteq DOMAIN ops[i].data
        \/ EnrichmentFields \cap DOMAIN ops[i].data = {}

\* C4: the destination lookup never aborts the run: the step that resolves
\* the window always ends with query_start computed and the topic loop
\* entered.
C4_LookupNeverAborts ==
    [][pc = "idle" /\ pc' # "idle" => pc' = "loop" /\ query_start' # None]_vars

\* C5: query_start is the minimum of the non-null candidates among
\* state.to_ts, the destination maximum and now minus 2 days, hence never
\* later than now minus 2 days, and query_end is now.
C5_WindowCorrectness ==
    WindowResolved =>
        /\ query_start = strftime(SetMin(Candidates))
        /\ Day(query_start) <= now - INIT_DELTA
        /\ query_end = strftime(now)
        /\ params.from = query_start
        /\ params.to = query_end

C5_Witness ==
    /\ WindowResolved
    /\ "to_ts" \in DOMAIN state
    /\ last_published_at # None
    /\ Day(state.to_ts) > now - INIT_DELTA
    /\ Day(last_published_at) < now - INIT_DELTA
    /\ query_start = last_published_at

\* C6: every article returned by a fetch yields exactly one upsert whatever
\* the outcome of its enrichment, the failure does not end the run, and the
\* record carries either all enrichment fields or, when its enrichment
\* failed, none of them.
C6_PartialFailureIsolation ==
    [][pc = "articles" /\ articles # << >> =>
        /\ pc' = "articles"
        /\ errors' = errors
        /\ articles' = Tail(articles)
        /\ Len(ops') = Len(ops) + 1
        /\ SubSeq(ops', 1, Len(ops)) = ops
        /\ LET u == ops'[Len(ops')]
           IN  /\ u.op = "upsert"
               /\ u.data.source = Head(articles).source.name
               /\ u.data.published_at = Head(articles).publishedAt
               /\ \/ EnrichmentFields \subseteq DOMAIN u.data
                  \/ EnrichmentFields \cap DOMAIN u.data = {}
               /\ ~tl_called(u.data)
                    => EnrichmentFields \cap DOMAIN u.data = {}]_vars

\* C7: a request that ends in a network error, a non-success status or
\* malformed JSON aborts the run at once: nothing of that response is
\* upserted and no later topic is fetched.
C7_RequestFailureFatal == RequestFailed => pc = "failed"

\* C8: a run in which every fetch succeeded ends with the final checkpoint
\* {to_ts: query_end} as its last operation, emitted once after the
\* intermediate checkpoint of each topic, and the stream holds one upsert
\* per fetched article before it (T*k for T topics of k articles each).
C8_FinalCheckpointLast ==
    pc = "done" =>
        /\ ops[Len(ops)] = checkpoint([to_ts |-> query_end])
        /\ Cardinality(Checkpoints) = Len(topics) + 1
        /\ Len(fetched) = Len(topics)
        /\ Cardinality(Upserts) = Sum(fetched)
        /\ \A k \in 0..MaxPageSize :
              (\A t \in 1..Len(topics) : fetched[t] = k)
                  => Cardinality(Upserts) = Len(topics) * k
        /\ \A i \in Checkpoints : i < Len(ops) => ops[i].state = state
        /\ persisted = [to_ts |-> query_end]

C8_Witness ==
    /\ pc = "done"
    /\ Len(topics) = 2
    /\ fetched = <<2, 2>>
    /\ Cardinality(Upserts) = 4

RunEnded == pc \in {"done", "failed"}

\* C9 (as stated, its last part): a failed run never emits a checkpoint
\* carrying to_ts = query_end.
C9_NoNewWatermarkOnFailure ==
    pc = "failed" =>
        \A i \in Checkpoints : ops[i].state # [to_ts |-> query_end]

\* C9 (amended): every run ends, either checkpointed (the final checkpoint
\* emitted, no error) or failed (exactly one error raised, the final
\* checkpoint not emitted); the two exclude each other, and every checkpoint
\* of a failed run is an intermediate one carrying the run's input state.
C9_TwoOutcomes ==
    /\ [](pc = "done" =>
            /\ errors = << >>
            /\ Cardinality(Checkpoints) = Len(topics) + 1
            /\ ops[Len(ops)] = checkpoint([to_ts |-> query_end]))
    /\ [](pc = "failed" =>
            /\ Len(errors) = 1
            /\ Cardinality(Checkpoints) = ti - 1
            /\ Cardinality(Checkpoints) <= Len(topics)
            /\ \A i \in Checkpoints : ops[i].state = state)
    /\ <>RunEnded

C9_Witness ==
    /\ pc = "failed"
    /\ Len(errors) = 1
    /\ errors[1].type = "RuntimeError"
    /\ Checkpoints # {}
    /\ state = [to_ts |-> query_end]

\* C10: at the end of a run that fails fatally the state the host has
\* persisted is the state that was passed into the run.
C10_PreviousStateAuthoritative == pc = "failed" => persisted = state

C10_Witness ==
    /\ pc = "failed"
    /\ prev.outcome = "done"
    /\ Checkpoints # {}
    /\ persisted = state
    /\ "to_ts" \in DOMAIN state

\* the length in days of the queried window
WindowSpan == Day(query_end) - Day(query_start)

\* C11 (as stated): the queried window spans at most 2 days.
C11_WindowAtMostTwoDays == WindowResolved => WindowSpan <= INIT_DELTA

\* C11 (amended): the queried window spans at least 2 days; it spans exactly
\* 2 days when neither state.to_ts nor the destination maximum is earlier
\* than now minus 2 days, and otherwise reaches back to the earlier of them.
C11_WindowAtLeastTwoDays ==
    WindowResolved =>
        /\ WindowSpan >= INIT_DELTA
        /\ WindowSpan = now - SetMin(Candidates)
        /\ WindowSpan = INIT_DELTA
              <=> \A d \in Candidates : d >= now - INIT_DELTA

C11_Witness ==
    /\ WindowResolved
    /\ "to_ts" \in DOMAIN state
    /\ query_start = state.to_ts
    /\ WindowSpan > INIT_DELTA

----------------------------------------------------------------------------
(* The destination: table article of schema(), lines 29-54, with every      *)
(* upsert applied as insert-or-update on the declared primary key           *)

\* variant of primary_key: the content column is part of the key
primary_key_with_content == <<"source", "published_at", "content">>

\* line 32
primary_key == <<"source", "published_at">>

row_key(row) == [i \in 1..Len(primary_key) |-> row[primary_key[i]]]

apply_upsert(table, data) ==
    {r \in table : row_key(r) # row_key(data)} \cup {data}

RECURSIVE apply_all(_, _)
apply_all(table, os) ==
    IF os = << >> THEN table
    ELSE apply_all(IF Head(os).op = "upsert"
                   THEN apply_upsert(table, Head(os).data)
                   ELSE table,
                   Tail(os))

\* what earlier runs may have left in the table
InitialTables ==
    {{}, {build_data(Article("s1", strftime(FirstDay), <<"x">>),
                     <<TopicNames[1]>>)}}

SameArticle(r1, r2) ==
    r1.source = r2.source /\ r1.published_at = r2.published_at

\* C12: after each upsert of the stream has been applied, on top of whatever
\* earlier runs left, the table holds at most one row per
\* (source, published_at), that row is the data of the latest upsert emitted
\* for the key, and rows of other keys are untouched.
C12_IdempotentUpsert ==
    (ops # << >> /\ ops[Len(ops)].op = "upsert") =>
    \A t0 \in InitialTables :
        LET t == apply_all(t0, ops)
        IN  /\ \A r1, r2 \in t : SameArticle(r1, r2) => r1 = r2
            /\ \A i \in Upserts :
                  (\A j \in Upserts :
                        j > i => ~SameArticle(ops[j].data, ops[i].data))
                      => ops[i].data \in t
            /\ \A r \in t0 :
                  (\A i \in Upserts : ~SameArticle(ops[i].data, r)) => r \in t
            /\ \A r \in t :
                  r \in t0 \/ \E i \in Upserts : ops[i].data = r

C12_Witness ==
    /\ ops # << >>
    /\ ops[Len(ops)].op = "upsert"
    /\ \E i \in Upserts :
          /\ i < Len(ops)
          /\ SameArticle(ops[i].data, ops[Len(ops)].data)
          /\ ops[i].data.topic # ops[Len(ops)].data.topic
          /\ ops[i].data.content # ops[Len(ops)].data.content
          /\ Cardinality(apply_all({}, ops)) < Cardinality(Upserts)

\* C13: whatever raised it, in window resolution or in the topic loop, the
\* error that leaves update() is a single RuntimeError carrying the original
\* message.
C13_SingleWrappedError ==
    pc = "failed" =>
        /\ Len(errors) = 1
        /\ errors[1].type = "RuntimeError"
        /\ errors[1].message # ""

\* the number of operations emitted before the first one of topic number t
Offset(t) == Sum(SubSeq(fetched, 1, t - 1)) + (t - 1)

ConfiguredTopics == Cardinality({i \in 1..Len(conf.TOPIC) : conf.TOPIC[i] = ","}) + 1

\* C15: the requests are issued in the order of the configured list, the
\* request of a topic is issued only when every upsert and the intermediate
\* checkpoint of the topics before it have been emitted, and every upsert
\* carries the topic of the request that fetched its article.
C15_TopicsInOrder ==
    /\ [](/\ Len(sent) <= ConfiguredTopics
          /\ \A t \in 1..Len(sent) : sent[t].params.q = <<TopicNames[t]>>
          /\ \A t \in 1..Len(fetched) : \A j \in 1..fetched[t] :
                Offset(t) + j <= Len(ops)
                    => ops[Offset(t) + j].data.topic = sent[t].params.q)
    /\ [][Len(sent') > Len(sent) =>
            /\ Len(sent') = Len(sent) + 1
            /\ Len(fetched) = Len(sent)
            /\ Len(ops) = Offset(Len(sent) + 1)
            /\ ops' = ops
            /\ Len(sent) >= 1 => ops[Len(ops)] = checkpoint(state)]_vars

C15_Witness ==
    /\ pc = "articles"
    /\ Len(sent) = 2
    /\ sent[2].params.q = <<"b">>
    /\ fetched = <<2, 1>>
    /\ Len(ops) = 4
    /\ ops[1].data.topic = <<"a">>
    /\ ops[4].data.topic = <<"b">>

UpsertSeq == SelectSeq(ops, LAMBDA o : o.op = "upsert")

\* contents with no text: null, empty, blank
NoText == {None, << >>, <<" ">>, <<" ", " ">>}

TopicsBegun == IF pc \in {"loop", "done"} THEN ti - 1 ELSE ti

\* C17: the window is computed once and the topic loop leaves it alone: one
\* request per topic, each for page 1 with the from and to of the window,
\* the requests differing only in q, the topic being fetched.
C17_OneWindowOneRequestPerTopic ==
    /\ [](WindowResolved =>
            /\ Len(sent) = TopicsBegun
            /\ pc = "done" => Len(sent) = Len(topics)
            /\ params.from = query_start
            /\ params.to = query_end
            /\ \A i \in 1..Len(sent) :
                  /\ sent[i].url = BASE_API_URL
                  /\ sent[i].params =
                        [from |-> query_start, to |-> query_end,
                         page |-> "1", language |-> "en",
                         sortBy |-> "publishedAt",
                         pageSize |-> conf.PAGE_SIZE, q |-> topics[i]])
    /\ [][WindowResolved =>
            /\ query_start' = query_start
            /\ query_end' = query_end
            /\ Len(sent') <= Len(sent) + 1
            /\ SubSeq(sent', 1, Len(sent)) = sent]_vars

C17_Witness ==
    /\ pc = "done"
    /\ Len(sent) = 2
    /\ sent[1].params.q = <<"a">>
    /\ sent[2].params.q = <<"b">>
    /\ sent[1].params.from = sent[2].params.from
    /\ fetched = <<2, 2>>

\* the persisted to_ts, if any, is not later than the clock: it was written
\* by a run and the clock has not gone backwards since
ClockNotBackwards ==
    "to_ts" \in DOMAIN persisted => ~StrLess(strftime(now), persisted.to_ts)

\* C18: across runs that start with the persisted state, state.to_ts is the
\* to_ts of the most recent final checkpoint (a completed run hands over its
\* query_end, a failed run hands over the state it was given), every run's
\* query_start is at most that to_ts, and the persisted to_ts never
\* decreases while the clock does not go backwards.
C18_NoGapAcrossRuns ==
    /\ []((WindowResolved /\ "to_ts" \in DOMAIN state)
            => ~StrLess(state.to_ts, query_start))
    /\ [][/\ (pc = "done" /\ pc' = "idle")
                => /\ state' = [to_ts |-> query_end]
                   /\ ops[Len(ops)] = checkpoint(state')
          /\ (pc = "failed" /\ pc' = "idle") => state' = state
          /\ (ClockNotBackwards /\ "to_ts" \in DOMAIN persisted)
                => /\ "to_ts" \in DOMAIN persisted'
                   /\ ~StrLess(persisted'.to_ts, persisted.to_ts)]_vars

C18_Witness ==
    /\ prev.outcome = "done"
    /\ pc = "done"
    /\ "to_ts" \in DOMAIN state
    /\ StrLess(query_start, state.to_ts)
    /\ StrLess(state.to_ts, persisted.to_ts)
    /\ persisted.to_ts = strftime(now)

\* C19: every source-API request is sent with the bearer-token headers built
\* in update(); the rebinding of headers inside sync_items changes neither
\* the headers of update() nor those of any request.
C19_FetchHeadersUnchanged ==
    /\ WindowResolved => headers = bearer_headers(conf)
    /\ \A i \in 1..Len(sent) :
          /\ sent[i].headers = bearer_headers(conf)
          /\ sent[i].headers # tl_headers(conf)

C19_Witness ==
    /\ pc = "articles"
    /\ Len(sent) = 2
    /\ fetched[1] >= 1
    /\ tl_calls[1] = 1
    /\ Len(tl_calls) > fetched[1]
    /\ tl_calls[Len(tl_calls)] = 1
    /\ sync_headers = tl_headers(conf)
    /\ sent[2].headers = bearer_headers(conf)

====
